---- MODULE Spec2Model ----
(***************************************************************************)
(* Model of src/oi_local.py: the memory file ai_memory.json, the crash log *)
(* error_log.txt, the interpreter's message list oi.messages and the run   *)
(* wrapper start_with_logging, over a sequence of process runs.            *)
(*                                                                         *)
(* File contents are sequences of lexical tokens, so that json.dump and    *)
(* json.load are conversions between a message list and a text:            *)
(*   "["  "]"  ","      the array punctuation                              *)
(*   "nl"               a newline followed by indentation (whitespace)     *)
(*   "{a}" "{b}"        the complete JSON text of message object a, b      *)
(*   "{"                the beginning of an object whose end is missing    *)
(* In memory a message is "a" or "b" (JSON-compatible maps) or "x" (a map  *)
(* holding a value json.dump cannot serialise, e.g. bytes).                *)
(***************************************************************************)
EXTENDS Naturals, Sequences, FiniteSets

\* Longest message list the chat loop leaves behind, longest array in an
\* initial memory file.
MaxLen == 2

\* Number of process runs (invocations of the script) in a behaviour.
MaxRuns == 2

VARIABLES
    pc,          \* position of the process in start_with_logging
    messages,    \* oi.messages
    memFile,     \* ai_memory.json: [exists, readable, text]
    errorLog,    \* error_log.txt: sequence of "MARK" / "TB" tokens
    propagating, \* the exception leaving start_with_logging, or "none"
    runs,        \* number of process runs started so far
    crashesCaught, \* runs whose chat loop raised an exception the except clause caught
    appendsFailed, \* of those, runs whose crash-log append failed
    prev,        \* summary of the previous run (see NoPrev, Summary)
    run          \* history of the current run (see NewRun)

vars == <<pc, messages, memFile, errorLog, propagating, runs,
          crashesCaught, appendsFailed, prev, run>>

----------------------------------------------------------------------------
\* Data

GoodObjs == {"a", "b"}
MsgObjs == GoodObjs \cup {"x"}

RECURSIVE ListsUpTo(_, _)
ListsUpTo(S, n) ==
    IF n = 0 THEN {<<>>}
    ELSE LET shorter == ListsUpTo(S, n - 1)
         IN  shorter \cup {Append(l, e) : l \in {s \in shorter : Len(s) = n - 1}, e \in S}

\* What the chat loop may leave in oi.messages.
MsgLists == ListsUpTo(MsgObjs, MaxLen)

\* Arrays an initial memory file may hold.
JsonLists == ListsUpTo(GoodObjs, MaxLen)

\* The interpreter's message list in a fresh process.
DefaultMessages == <<>>

NoFile == [exists |-> FALSE, readable |-> FALSE, text |-> <<>>]

File(text, readable) == [exists |-> TRUE, readable |-> readable, text |-> text]

----------------------------------------------------------------------------
\* json.dump(oi.messages, f, indent=4, ensure_ascii=False)

Serializable(m) == m \in GoodObjs

ObjToken(m) == IF m = "a" THEN "{a}" ELSE "{b}"

TokenObj(t) == IF t = "{a}" THEN "a" ELSE "b"

ObjTokens == {"{a}", "{b}"}

\* Index of the first message json.dump cannot serialise, 0 if there is none.
FirstBad(msgs) ==
    IF \A i \in 1..Len(msgs) : Serializable(msgs[i]) THEN 0
    ELSE CHOOSE i \in 1..Len(msgs) :
            /\ ~Serializable(msgs[i])
            /\ \A j \in 1..(i - 1) : Serializable(msgs[j])

\* Mutant of ItemSeparator: the comma between two items is left out.
ItemSeparatorNoComma(i) == <<"nl">>

\* The separator json.dump emits before item i of an indented array.
ItemSeparator(i) == IF i = 1 THEN <<"nl">> ELSE <<",", "nl">>

\* What json.dump emits for item i: the separator, then the object, or only
\* the beginning of the object when one of its values is not serialisable.
ItemTokens(msgs, i) ==
    ItemSeparator(i) \o (IF Serializable(msgs[i]) THEN <<ObjToken(msgs[i])>> ELSE <<"{">>)

RECURSIVE ItemsUpTo(_, _)
ItemsUpTo(msgs, n) ==
    IF n = 0 THEN <<>> ELSE ItemsUpTo(msgs, n - 1) \o ItemTokens(msgs, n)

\* The text json.dump has written when it returns or raises TypeError.
DumpText(msgs) ==
    IF msgs = <<>> THEN <<"[", "]">>
    ELSE IF FirstBad(msgs) = 0
         THEN <<"[">> \o ItemsUpTo(msgs, Len(msgs)) \o <<"nl", "]">>
         ELSE <<"[">> \o ItemsUpTo(msgs, FirstBad(msgs))

DumpRaises(msgs) == FirstBad(msgs) # 0

----------------------------------------------------------------------------
\* json.load(f)

StripWhitespace(text) == SelectSeq(text, LAMBDA t : t # "nl")

Inner(t) == SubSeq(t, 2, Len(t) - 1)

WellFormedArray(t) ==
    /\ Len(t) >= 2
    /\ t[1] = "["
    /\ t[Len(t)] = "]"
    /\ \/ Len(t) = 2
       \/ /\ Len(Inner(t)) % 2 = 1
          /\ \A i \in 1..Len(Inner(t)) :
                IF i % 2 = 1 THEN Inner(t)[i] \in ObjTokens ELSE Inner(t)[i] = ","

\* Mutant of JsonLoad: the last record of the array is lost.
JsonLoadDropsLast(text) ==
    LET t == StripWhitespace(text)
    IN  IF WellFormedArray(t)
        THEN [ok |-> TRUE,
              value |-> [i \in 1..((Len(t) - 1) \div 2 - 1) |-> TokenObj(Inner(t)[2 * i - 1])]]
        ELSE [ok |-> FALSE, value |-> <<>>]

\* json.load: the parsed list, or ok = FALSE for JSONDecodeError.
JsonLoad(text) ==
    LET t == StripWhitespace(text)
    IN  IF WellFormedArray(t)
        THEN [ok |-> TRUE,
              value |-> [i \in 1..(Len(t) - 1) \div 2 |-> TokenObj(Inner(t)[2 * i - 1])]]
        ELSE [ok |-> FALSE, value |-> <<>>]

----------------------------------------------------------------------------
\* The files before the first run

\* An array written without indentation, by some other writer.
RECURSIVE CompactItems(_, _)
CompactItems(X, n) ==
    IF n = 0 THEN <<>>
    ELSE CompactItems(X, n - 1) \o (IF n = 1 THEN <<>> ELSE <<",">>) \o <<ObjToken(X[n])>>

CompactText(X) == <<"[">> \o CompactItems(X, Len(X)) \o <<"]">>

\* A text cut short: every proper prefix of an indented array, the empty
\* file included.
Truncations(X) == {SubSeq(DumpText(X), 1, k) : k \in 0..(Len(DumpText(X)) - 1)}

InitFiles ==
    {NoFile}
    \cup {File(DumpText(X), r) : X \in JsonLists, r \in BOOLEAN}
    \cup {File(CompactText(X), TRUE) : X \in JsonLists}
    \cup {File(t, TRUE) : t \in UNION {Truncations(X) : X \in JsonLists}}

\* The history of one process run.
NewRun(mem, log) ==
    [memAtStart   |-> mem,      \* ai_memory.json when the process started
     logAtStart   |-> log,      \* error_log.txt when the process started
     visited      |-> <<"idle">>, \* the positions the process went through
     loadResult   |-> "none",   \* none | absent | loaded | failed
     reported     |-> 0,        \* the count load_memory printed
     chatCalls    |-> 0,        \* calls of oi.chat()
     chatOutcome  |-> "none",   \* none | returned | Exception | BaseException
     msgsAtStop   |-> <<>>,     \* oi.messages when oi.chat() returned or raised
     logAppend    |-> "none",   \* none | ok | failed
     promptState  |-> "none",   \* none | shown | returned | raised
     saveCalls    |-> 0,        \* calls of save_memory
     saveResult   |-> "none",   \* none | ok | failed
     savedArg     |-> <<>>]     \* oi.messages when save_memory was called

\* What a run remembers of the run before it.
NoPrev == [saveOk |-> FALSE, roundTrip |-> FALSE, X |-> <<>>, reformatted |-> FALSE]

\* A run that loaded the array X and saved it back with oi.messages unchanged.
RoundTrip ==
    /\ run.loadResult = "loaded"
    /\ run.saveCalls = 1
    /\ run.savedArg = JsonLoad(run.memAtStart.text).value

Summary ==
    [saveOk      |-> run.saveResult = "ok",
     roundTrip   |-> RoundTrip,
     X           |-> IF RoundTrip THEN run.savedArg ELSE <<>>,
     reformatted |-> RoundTrip /\ memFile.text # run.memAtStart.text]

Init ==
    /\ pc = "idle"
    /\ messages = DefaultMessages
    /\ memFile \in InitFiles
    /\ errorLog = <<>>
    /\ propagating = "none"
    /\ runs = 1
    /\ crashesCaught = 0
    /\ appendsFailed = 0
    /\ prev = NoPrev
    /\ run = NewRun(memFile, errorLog)

----------------------------------------------------------------------------
\* start_with_logging, step by step

\* if __name__ == "__main__": start_with_logging(), whose first statement
\* calls load_memory.
Invoke ==
    /\ pc = "idle"
    /\ pc' = "loading"
    /\ run' = [run EXCEPT !.visited = Append(@, "loading")]
    /\ UNCHANGED <<messages, memFile, errorLog, propagating, runs,
                   crashesCaught, appendsFailed, prev>>

\* Mutant of OnLoadFailure: load_memory() called inside the try statement,
\* so that the except clause catches its exception.
OnLoadFailureCaught(exc) ==
    /\ pc' = "crashed"
    /\ propagating' = propagating
    /\ run' = [run EXCEPT !.visited = Append(@, "crashed"), !.loadResult = "failed"]
    /\ UNCHANGED <<messages, crashesCaught>>

\* Where an exception raised by load_memory goes: load_memory() is called
\* before the try statement, so it leaves start_with_logging.
OnLoadFailure(exc) ==
    /\ pc' = "exited"
    /\ propagating' = exc
    /\ run' = [run EXCEPT !.visited = Append(@, "exited"), !.loadResult = "failed"]
    /\ UNCHANGED <<messages, crashesCaught>>

LoadMemory ==
    /\ pc = "loading"
    /\ IF ~memFile.exists
       THEN /\ pc' = "running"
            /\ run' = [run EXCEPT !.visited = Append(@, "running"),
                                  !.loadResult = "absent"]
            /\ UNCHANGED <<messages, propagating, crashesCaught>>
       ELSE IF ~memFile.readable
       THEN OnLoadFailure("OSError")
       ELSE IF ~JsonLoad(memFile.text).ok
       THEN OnLoadFailure("JSONDecodeError")
       ELSE /\ messages' = JsonLoad(memFile.text).value
            /\ pc' = "running"
            /\ run' = [run EXCEPT !.visited = Append(@, "running"),
                                  !.loadResult = "loaded",
                                  !.reported = Len(messages')]
            /\ UNCHANGED <<propagating, crashesCaught>>
    /\ UNCHANGED <<memFile, errorLog, runs, appendsFailed, prev>>

\* Mutant of AfterChat: a bare except clause, which catches interrupts too.
AfterChatCatchAll(outcome) == IF outcome = "returned" THEN "done" ELSE "crashed"

\* Which clause of the try statement takes over when oi.chat() ends.
AfterChat(outcome) ==
    IF outcome = "returned" THEN "done"
    ELSE IF outcome = "Exception" THEN "crashed"
    ELSE "interrupted"

\* oi.chat(): the library's loop; it leaves any message list behind and
\* returns, raises an Exception, or is left by KeyboardInterrupt/SystemExit.
Chat ==
    /\ pc = "running"
    /\ \E final \in MsgLists, outcome \in {"returned", "Exception", "BaseException"} :
          /\ messages' = final
          /\ pc' = AfterChat(outcome)
          /\ propagating' = IF pc' = "interrupted" THEN "BaseException" ELSE propagating
          /\ crashesCaught' = IF pc' = "crashed" THEN crashesCaught + 1 ELSE crashesCaught
          /\ run' = [run EXCEPT !.visited = Append(@, pc'),
                                !.chatCalls = @ + 1,
                                !.chatOutcome = outcome,
                                !.msgsAtStop = final]
    /\ UNCHANGED <<memFile, errorLog, runs, appendsFailed, prev>>

\* Mutant of AppendCrash: the log opened with "w", which truncates it.
AppendCrashTruncating(log) == <<"MARK", "TB">>

\* Mutant of AppendCrash: the marker line is not written.
AppendCrashNoMarker(log) == log \o <<"TB">>

\* open("error_log.txt", "a"), the marker line, the traceback.
AppendCrash(log) == log \o <<"MARK", "TB">>

\* A crash block whose traceback was lost: the write failed after the marker.
CutShort(log) == SubSeq(log, 1, Len(log) - 1)

\* The except clause up to the prompt: banner, traceback, the crash log.
LogCrash ==
    /\ pc = "crashed"
    /\ \E io \in {"ok", "open_fails", "write_fails"} :
          IF io = "ok"
          THEN /\ errorLog' = AppendCrash(errorLog)
               /\ pc' = "prompting"
               /\ run' = [run EXCEPT !.visited = Append(@, "prompting"),
                                     !.logAppend = "ok",
                                     !.promptState = "shown"]
               /\ UNCHANGED <<propagating, appendsFailed>>
          ELSE /\ pc' = "handler_failed"
               /\ propagating' = "OSError"
               /\ appendsFailed' = appendsFailed + 1
               /\ run' = [run EXCEPT !.visited = Append(@, "handler_failed"),
                                     !.logAppend = "failed"]
               /\ errorLog' = IF io = "open_fails" THEN errorLog
                               ELSE CutShort(AppendCrash(errorLog))
    /\ UNCHANGED <<messages, memFile, runs, crashesCaught, prev>>

\* input("..."): returns when the user presses Enter, raises on end of
\* input or an interrupt.
Prompt ==
    /\ pc = "prompting"
    /\ \E r \in {"returned", "raised"} :
          /\ pc' = IF r = "returned" THEN "acked" ELSE "handler_failed"
          /\ propagating' = IF r = "returned" THEN propagating ELSE "EOFError"
          /\ run' = [run EXCEPT !.visited = Append(@, pc'), !.promptState = r]
    /\ UNCHANGED <<messages, memFile, errorLog, runs, crashesCaught,
                   appendsFailed, prev>>

\* Mutant of FinallyFrom: the save does not wait for the prompt.
FinallyFromPrompt == {"done", "interrupted", "prompting", "acked", "handler_failed"}

\* Positions from which control enters the finally clause.
FinallyFrom == {"done", "interrupted", "acked", "handler_failed"}

\* Mutant of EnterFinally: save_memory() placed after the try statement's
\* normal path only, instead of in a finally clause.
EnterFinallyAfterSuccessOnly ==
    /\ pc \in {"done", "interrupted", "acked", "handler_failed"}
    /\ pc' = IF pc = "done" THEN "saving" ELSE "exited"
    /\ run' = [run EXCEPT !.visited = Append(@, pc')]
    /\ UNCHANGED <<messages, memFile, errorLog, propagating, runs,
                   crashesCaught, appendsFailed, prev>>

EnterFinally ==
    /\ pc \in FinallyFrom
    /\ pc' = "saving"
    /\ run' = [run EXCEPT !.visited = Append(@, "saving")]
    /\ UNCHANGED <<messages, memFile, errorLog, propagating, runs,
                   crashesCaught, appendsFailed, prev>>

\* Mutant of OpenForWriting: the file opened with "a", which keeps the old text.
OpenForAppending(old) == old

\* open(DB_PATH, "w"): what is left of the old text.
OpenForWriting(old) == <<>>

\* save_memory; an exception it raises replaces the one on its way out.
SaveMemory ==
    /\ pc = "saving"
    /\ messages' = messages
    /\ \E io \in {"ok", "OSError"} :
          IF io = "OSError"
          THEN /\ propagating' = "OSError"
               /\ run' = [run EXCEPT !.visited = Append(@, "exited"),
                                     !.saveCalls = @ + 1,
                                     !.saveResult = "failed",
                                     !.savedArg = messages]
               /\ UNCHANGED memFile
          ELSE /\ memFile' = File(OpenForWriting(memFile.text) \o DumpText(messages), TRUE)
               /\ propagating' = IF DumpRaises(messages) THEN "TypeError" ELSE propagating
               /\ run' = [run EXCEPT !.visited = Append(@, "exited"),
                                     !.saveCalls = @ + 1,
                                     !.saveResult = IF DumpRaises(messages)
                                                    THEN "failed" ELSE "ok",
                                     !.savedArg = messages]
    /\ pc' = "exited"
    /\ UNCHANGED <<errorLog, runs, crashesCaught, appendsFailed, prev>>

\* The user starts the script again: a new process, the files as they are.
Restart ==
    /\ pc = "exited"
    /\ runs < MaxRuns
    /\ pc' = "idle"
    /\ messages' = DefaultMessages
    /\ propagating' = "none"
    /\ runs' = runs + 1
    /\ prev' = Summary
    /\ run' = NewRun(memFile, errorLog)
    /\ UNCHANGED <<memFile, errorLog, crashesCaught, appendsFailed>>

Next ==
    \/ Invoke
    \/ LoadMemory
    \/ Chat
    \/ LogCrash
    \/ Prompt
    \/ EnterFinally
    \/ SaveMemory
    \/ Restart

Spec == Init /\ [][Next]_vars

TypeOK ==
    /\ pc \in {"idle", "loading", "running", "done", "crashed", "interrupted",
               "prompting", "acked", "handler_failed", "saving", "exited"}
    /\ messages \in MsgLists
    /\ runs \in 1..MaxRuns

----------------------------------------------------------------------------
\* Vocabulary of the properties

\* The memory file holds exactly the array msgs.
FileHolds(f, msgs) ==
    /\ f.exists
    /\ JsonLoad(f.text).ok
    /\ JsonLoad(f.text).value = msgs

\* Absent, or one complete JSON array.
Complete(f) == ~f.exists \/ JsonLoad(f.text).ok

IsPrefix(s, t) == Len(s) <= Len(t) /\ SubSeq(t, 1, Len(s)) = s

CountMarkers(log) == Cardinality({i \in DOMAIN log : log[i] = "MARK"})

\* The records of a text, counted without parsing it.
CountRecords(text) == Cardinality({i \in DOMAIN text : text[i] \in ObjTokens})

CrashBlock == <<"MARK", "TB">>

\* The order idle, loading, running, (done | crashed), saving, exited; the
\* crashed branch itself runs crashed, prompting, then acked or failed.
Rank(p) ==
    CASE p = "idle" -> 0
      [] p = "loading" -> 1
      [] p = "running" -> 2
      [] p \in {"done", "crashed", "interrupted"} -> 3
      [] p = "prompting" -> 4
      [] p \in {"acked", "handler_failed"} -> 5
      [] p = "saving" -> 6
      [] p = "exited" -> 7

InOrder(v) == \A i \in 1..(Len(v) - 1) : Rank(v[i]) < Rank(v[i + 1])

----------------------------------------------------------------------------
\* C1: once oi.chat() has been called, save_memory is attempted exactly once
\* before the process exits, whether oi.chat() returned or raised, and when
\* the save succeeds the memory file holds the message list as it was when
\* the chat loop stopped (also when there was no memory file at the start).
C1_SaveOnExit ==
    /\ run.saveCalls <= 1
    /\ (pc = "exited" /\ run.chatCalls >= 1) =>
          /\ run.saveCalls = 1
          /\ run.savedArg = run.msgsAtStop
    /\ (pc = "exited" /\ run.saveResult = "ok") => FileHolds(memFile, run.msgsAtStop)

C1_Witness ==
    /\ pc = "exited"
    /\ run.chatOutcome = "Exception"
    /\ run.saveResult = "ok"
    /\ ~run.memAtStart.exists
    /\ Len(run.msgsAtStop) >= 2

C3_NoPartialWrites ==
    Complete(run.memAtStart) =>
        \/ memFile = run.memAtStart
        \/ FileHolds(memFile, run.savedArg)

\* C4: round trip. A run that loads the array X and saves it back with the
\* message list unchanged leaves a memory file holding X, and the next load
\* yields X.
C4_RoundTrip ==
    /\ (pc = "exited" /\ RoundTrip) =>
          FileHolds(memFile, JsonLoad(run.memAtStart.text).value)
    /\ (prev.roundTrip /\ pc \notin {"idle", "loading"}) => run.loadResult = "loaded"
    /\ (prev.roundTrip /\ pc = "running") => messages = prev.X

C4_Witness ==
    /\ pc = "running"
    /\ prev.roundTrip
    /\ prev.reformatted
    /\ Len(prev.X) >= 2
    /\ messages = prev.X

\* C5: load_memory's postcondition. With a memory file holding a valid JSON
\* array of N records, the message list is that array and the count
\* reported is N; with no memory file, load_memory does not raise and the
\* message list keeps its default value; the memory file is unchanged.
C5_LoadPostcondition ==
    /\ (pc = "running" /\ run.memAtStart.exists) =>
          /\ JsonLoad(run.memAtStart.text).ok
          /\ messages = JsonLoad(run.memAtStart.text).value
          /\ run.reported = CountRecords(run.memAtStart.text)
          /\ run.reported = Len(messages)
    /\ (/\ run.loadResult # "none"
        /\ run.memAtStart.exists
        /\ run.memAtStart.readable
        /\ JsonLoad(run.memAtStart.text).ok) => run.loadResult = "loaded"
    /\ ~run.memAtStart.exists => run.loadResult \in {"none", "absent"}
    /\ (pc = "running" /\ ~run.memAtStart.exists) => messages = DefaultMessages
    /\ (pc \in {"loading", "running"} \/ run.loadResult = "failed") =>
          memFile = run.memAtStart

C5_Witness ==
    /\ pc = "running"
    /\ run.loadResult = "loaded"
    /\ run.reported >= 2
    /\ run.memAtStart.text # DumpText(messages)

\* C6: save overwrites, it does not merge. After a successful save_memory
\* the memory file is exactly the text of the list it was given, whatever
\* the file held before, and save_memory leaves oi.messages as it was.
C6_SaveOverwrites ==
    /\ (pc = "exited" /\ run.saveResult = "ok") =>
          /\ memFile.text = DumpText(run.savedArg)
          /\ FileHolds(memFile, run.savedArg)
    /\ (pc = "exited" /\ run.saveCalls = 1) => messages = run.savedArg

C6_Witness ==
    /\ pc = "exited"
    /\ runs >= 2
    /\ prev.saveOk
    /\ run.saveResult = "ok"
    /\ Len(run.memAtStart.text) > Len(memFile.text)
    /\ Len(run.savedArg) >= 1

\* C7: a memory file that exists but is unreadable or malformed ends the
\* process at startup: the failure propagates, oi.chat() is never called,
\* nothing is appended to the crash log, no prompt is shown, save_memory is
\* not called and the memory file stays as it was.
C7_StartupFailure ==
    (/\ pc \notin {"idle", "loading"}
     /\ run.memAtStart.exists
     /\ (~run.memAtStart.readable \/ ~JsonLoad(run.memAtStart.text).ok)) =>
        /\ pc = "exited"
        /\ run.loadResult = "failed"
        /\ propagating \in {"OSError", "JSONDecodeError"}
        /\ run.visited = <<"idle", "loading", "exited">>
        /\ run.chatCalls = 0
        /\ errorLog = run.logAtStart
        /\ run.logAppend = "none"
        /\ run.promptState = "none"
        /\ run.saveCalls = 0
        /\ memFile = run.memAtStart

C7_Witness ==
    /\ pc = "exited"
    /\ run.loadResult = "failed"
    /\ propagating = "JSONDecodeError"
    /\ runs >= 2
    /\ errorLog # <<>>

C9_Original ==
    /\ InOrder(run.visited)
    /\ run.chatCalls <= 1
    /\ run.chatCalls >= 1 => run.loadResult \in {"absent", "loaded"}
    /\ run.promptState # "none" => run.logAppend = "ok"
    /\ (run.chatOutcome = "Exception" /\ pc \in {"saving", "exited"}) =>
          run.promptState = "returned"

\* C9, amended: as stated, except that save_memory runs once the crashed
\* branch has ended, which is when the prompt has returned or when the
\* crash-log append or the prompt has raised; the prompt is never pending
\* while save_memory runs.
C9_RunOrder ==
    /\ InOrder(run.visited)
    /\ run.chatCalls <= 1
    /\ run.chatCalls >= 1 => run.loadResult \in {"absent", "loaded"}
    /\ run.promptState # "none" => run.logAppend = "ok"
    /\ (run.chatOutcome = "Exception" /\ pc \in {"saving", "exited"}) =>
          \/ run.promptState = "returned"
          \/ run.promptState = "raised"
          \/ run.logAppend = "failed"

C9_Witness ==
    /\ pc = "exited"
    /\ run.chatOutcome = "Exception"
    /\ run.promptState = "returned"
    /\ run.saveCalls = 1
    /\ run.visited = <<"idle", "loading", "running", "crashed", "prompting",
                       "acked", "saving", "exited">>

\* C10: when oi.chat() is left by an exception that is not an Exception
\* (KeyboardInterrupt, SystemExit), nothing is appended to the crash log and
\* no prompt is shown, yet save_memory is called with the message list of
\* the moment of the interrupt, and after a successful save the file holds
\* that list and the interrupt propagates; save_memory is also called when
\* the crashed branch itself fails.
C10_InterruptStillSaves ==
    /\ (pc = "exited" /\ run.chatOutcome = "BaseException") =>
          /\ errorLog = run.logAtStart
          /\ run.logAppend = "none"
          /\ run.promptState = "none"
          /\ run.saveCalls = 1
          /\ run.savedArg = run.msgsAtStop
          /\ run.saveResult = "ok" =>
                /\ FileHolds(memFile, run.msgsAtStop)
                /\ propagating = "BaseException"
    /\ (pc = "exited" /\ (run.logAppend = "failed" \/ run.promptState = "raised")) =>
          /\ run.saveCalls = 1
          /\ run.savedArg = run.msgsAtStop

C10_Witness ==
    /\ pc = "exited"
    /\ run.chatOutcome = "BaseException"
    /\ run.saveResult = "ok"
    /\ run.msgsAtStop # <<>>
    /\ propagating = "BaseException"

====
